---- MODULE Spec2Model ----
(***************************************************************************)
(* Model of the data preparation pipeline of the Marketing Intelligence    *)
(* Dashboard (src/app.py): load_data (read, standardize, consolidate,      *)
(* aggregate, join, derive metrics) and the sidebar filter step.           *)
(*                                                                         *)
(* Representation choices                                                  *)
(*  - A column name is the sequence of its characters, so that the         *)
(*    lower-casing and the substring replacements of lines 24 and 27 are   *)
(*    computed, not assumed.                                               *)
(*  - A DataFrame is [columns |-> set of names, rows |-> sequence of       *)
(*    functions from the columns to cell values].                          *)
(*  - A numeric cell is the float (nu + ne*eps) / (du + de*eps) with       *)
(*    eps = 1e-9 kept symbolic (TLC integers are 32 bit): an integer n is  *)
(*    (n + 0*eps)/(1 + 0*eps); a zero denominator is NaN (zero numerator)  *)
(*    or an infinity (non-zero numerator).                                 *)
(*  - A date cell is a text ("2024-01-01") until pd.to_datetime turns it   *)
(*    into a day ordinal.                                                  *)
(***************************************************************************)
EXTENDS Integers, Sequences, FiniteSets, TLC

\* ------------------------------------------------------------------------
\* Bounds of the model
\* ------------------------------------------------------------------------
\* number of distinct calendar dates that occur in the CSV files
MaxDate == 2
\* total number of rows over the three channel files
MaxRows == 2

\* ------------------------------------------------------------------------
\* Column names (character sequences)
\* ------------------------------------------------------------------------
cDate == <<"d", "a", "t", "e">>
cState == <<"s", "t", "a", "t", "e">>
cTactic == <<"t", "a", "c", "t", "i", "c">>
cCampaign == <<"c", "a", "m", "p", "a", "i", "g", "n">>
cPlatform == <<"p", "l", "a", "t", "f", "o", "r", "m">>
cSpend == <<"s", "p", "e", "n", "d">>
cImpressions == <<"i", "m", "p", "r", "e", "s", "s", "i", "o", "n", "s">>
cImpression == <<"i", "m", "p", "r", "e", "s", "s", "i", "o", "n">>
cClicks == <<"c", "l", "i", "c", "k", "s">>
cAttributedRevenue == <<"a", "t", "t", "r", "i", "b", "u", "t", "e", "d", "_", "r", "e", "v", "e", "n", "u", "e">>
cAttributeRevenue == <<"a", "t", "t", "r", "i", "b", "u", "t", "e", "_", "r", "e", "v", "e", "n", "u", "e">>
cTotalRevenue == <<"t", "o", "t", "a", "l", "_", "r", "e", "v", "e", "n", "u", "e">>
cGrossProfit == <<"g", "r", "o", "s", "s", "_", "p", "r", "o", "f", "i", "t">>
cNewCustomers == <<"n", "e", "w", "_", "c", "u", "s", "t", "o", "m", "e", "r", "s">>
cOrders == <<"o", "r", "d", "e", "r", "s">>
cRoas == <<"r", "o", "a", "s">>
cMer == <<"m", "e", "r">>
cCpc == <<"c", "p", "c">>
cCtr == <<"c", "t", "r">>
cCac == <<"c", "a", "c">>

\* Raw header spellings that occur in the CSV files
hImpressionCap == <<"I", "m", "p", "r", "e", "s", "s", "i", "o", "n">>
hImpressionsCap == <<"I", "m", "p", "r", "e", "s", "s", "i", "o", "n", "s">>
hSpendCap == <<"S", "p", "e", "n", "d">>
hAttributedRevenueSp == <<"a", "t", "t", "r", "i", "b", "u", "t", "e", "d", " ", "r", "e", "v", "e", "n", "u", "e">>
hAttributeRevenueSp == <<"A", "t", "t", "r", "i", "b", "u", "t", "e", " ", "R", "e", "v", "e", "n", "u", "e">>
hTotalRevenueSp == <<"t", "o", "t", "a", "l", " ", "r", "e", "v", "e", "n", "u", "e">>
hGrossProfitSp == <<"g", "r", "o", "s", "s", " ", "p", "r", "o", "f", "i", "t">>
hNewCustomersSp == <<"n", "e", "w", " ", "c", "u", "s", "t", "o", "m", "e", "r", "s">>
hNumOrders == <<"#", " ", "o", "f", " ", "o", "r", "d", "e", "r", "s">>

\* the four measures that line 38 aggregates
MeasureColumns == {cSpend, cImpressions, cClicks, cAttributedRevenue}

\* ------------------------------------------------------------------------
\* str.lower() and str.replace() on column names (lines 24, 27)
\* ------------------------------------------------------------------------
\* the lower-case letter of every upper-case letter
LowerOf ==
    ("A" :> "a") @@ ("B" :> "b") @@ ("C" :> "c") @@ ("D" :> "d") @@ ("E" :> "e") @@
    ("F" :> "f") @@ ("G" :> "g") @@ ("H" :> "h") @@ ("I" :> "i") @@ ("J" :> "j") @@
    ("K" :> "k") @@ ("L" :> "l") @@ ("M" :> "m") @@ ("N" :> "n") @@ ("O" :> "o") @@
    ("P" :> "p") @@ ("Q" :> "q") @@ ("R" :> "r") @@ ("S" :> "s") @@ ("T" :> "t") @@
    ("U" :> "u") @@ ("V" :> "v") @@ ("W" :> "w") @@ ("X" :> "x") @@ ("Y" :> "y") @@
    ("Z" :> "z")

LowerChar(c) == IF c \in DOMAIN LowerOf THEN LowerOf[c] ELSE c

StrLower(s) == [i \in 1..Len(s) |-> LowerChar(s[i])]

RECURSIVE StrReplace(_, _, _)
StrReplace(s, pat, rep) ==
    IF Len(s) < Len(pat) \/ Len(pat) = 0 THEN s
    ELSE IF SubSeq(s, 1, Len(pat)) = pat
         THEN rep \o StrReplace(SubSeq(s, Len(pat) + 1, Len(s)), pat, rep)
         ELSE <<s[1]>> \o StrReplace(Tail(s), pat, rep)

\* line 24: columns.str.lower().str.replace(' ', '_')
MarketingColumnName(h) == StrReplace(StrLower(h), <<" ">>, <<"_">>)

\* line 27: columns.str.lower().str.replace('# of ', '').str.replace(' ', '_')
BusinessColumnName(h) ==
    StrReplace(StrReplace(StrLower(h), <<"#", " ", "o", "f", " ">>, <<>>), <<" ">>, <<"_">>)

\* ------------------------------------------------------------------------
\* Float cells
\* ------------------------------------------------------------------------
Num(n) == [nu |-> n, ne |-> 0, du |-> 1, de |-> 0]

NaN == [nu |-> 0, ne |-> 0, du |-> 0, de |-> 0]

IsNaN(v) == v.du = 0 /\ v.de = 0 /\ v.nu = 0 /\ v.ne = 0

IsInf(v) == v.du = 0 /\ v.de = 0 /\ ~(v.nu = 0 /\ v.ne = 0)

\* the float inf, as pd.read_csv reads the cell "inf"
Inf == [nu |-> 1, ne |-> 0, du |-> 0, de |-> 0]

\* a finite value with denominator 1 (every finite cell read from a file is
\* one)
IsPlain(v) == v.du = 1 /\ v.de = 0

\* the float equals 0.0
IsZero(v) == v.nu = 0 /\ v.ne = 0 /\ ~(v.du = 0 /\ v.de = 0)

\* line 44
epsilon == [nu |-> 0, ne |-> 1, du |-> 1, de |-> 0]

\* a + b for operands that are plain, inf or NaN (no cell is negative); NaN
\* propagates, inf absorbs
FAdd(a, b) ==
    IF IsNaN(a) \/ IsNaN(b) THEN NaN
    ELSE IF IsInf(a) \/ IsInf(b) THEN Inf
    ELSE IF IsPlain(a) /\ IsPlain(b)
    THEN [nu |-> a.nu + b.nu, ne |-> a.ne + b.ne, du |-> 1, de |-> 0]
    ELSE NaN

\* a / b for operands that are plain, inf or NaN (x/0 is an infinity, 0/0
\* and inf/inf are NaN, x/inf is 0); NaN propagates
FDiv(a, b) ==
    IF IsNaN(a) \/ IsNaN(b) THEN NaN
    ELSE IF IsInf(a) THEN (IF IsInf(b) THEN NaN ELSE Inf)
    ELSE IF IsInf(b) THEN Num(0)
    ELSE IF IsPlain(a) /\ IsPlain(b)
    THEN [nu |-> a.nu, ne |-> a.ne, du |-> b.nu, de |-> b.ne]
    ELSE NaN

\* v * k for an integer k
FScale(v, k) == [v EXCEPT !.nu = @ * k, !.ne = @ * k]

\* Series.sum(): NaN cells are skipped, the empty sum is 0
RECURSIVE NanSum(_)
NanSum(vs) ==
    IF vs = <<>> THEN Num(0)
    ELSE IF IsNaN(vs[1]) THEN NanSum(Tail(vs))
    ELSE FAdd(vs[1], NanSum(Tail(vs)))

\* ------------------------------------------------------------------------
\* Dates
\* ------------------------------------------------------------------------
DateNames == <<"2023-12-31", "2024-01-01", "2024-01-02", "2024-01-03",
               "2024-01-04", "2024-01-05", "2024-01-06">>

\* pd.to_datetime: the text of a date to its day ordinal
ToDatetime(s) == CHOOSE i \in 1..Len(DateNames) : DateNames[i] = s

\* ------------------------------------------------------------------------
\* DataFrame operations
\* ------------------------------------------------------------------------
EmptyFrame == [columns |-> {}, rows |-> <<>>]

\* df.columns = the new names; ren holds a pair <<old, new>> per column
RenameColumns(t, ren) ==
    LET new == {p[2] : p \in ren}
    IN  [columns |-> new,
         rows |-> [i \in 1..Len(t.rows) |->
                     [n \in new |-> t.rows[i][(CHOOSE p \in ren : p[2] = n)[1]]]]]

\* df[col] = v
AssignColumn(t, col, v) ==
    [columns |-> t.columns \cup {col},
     rows |-> [i \in 1..Len(t.rows) |->
                 [c \in t.columns \cup {col} |-> IF c = col THEN v ELSE t.rows[i][c]]]]

\* lines 34, 35: df['date'] = pd.to_datetime(df['date'])
DateColumnToDatetime(t) ==
    [columns |-> t.columns,
     rows |-> [i \in 1..Len(t.rows) |->
                 [c \in t.columns |->
                    IF c = cDate THEN ToDatetime(t.rows[i][c]) ELSE t.rows[i][c]]]]

\* the rows of t over the columns cols, NaN where t has no such column
Reindex(t, cols) ==
    [i \in 1..Len(t.rows) |->
        [c \in cols |-> IF c \in t.columns THEN t.rows[i][c] ELSE NaN]]

\* lines 24-26: one channel table with its columns standardized
StandardizeMarketing(t) ==
    LET t1 == RenameColumns(t, {<<c, MarketingColumnName(c)>> : c \in t.columns})
    IN  IF cImpression \in t1.columns /\ cImpressions \notin t1.columns
        THEN RenameColumns(t1, {<<c, IF c = cImpression THEN cImpressions ELSE c>> :
                                  c \in t1.columns})
        ELSE t1

\* line 27
StandardizeBusiness(t) ==
    RenameColumns(t, {<<c, BusinessColumnName(c)>> : c \in t.columns})

\* lines 30-32: df['platform'] = tag
TagPlatform(t, tag) == AssignColumn(t, cPlatform, tag)

\* mutant of Concat: pd.concat([google, facebook, tiktok], ignore_index=True)
ConcatGoogleFirst(fb, gg, tt) ==
    LET cols == fb.columns \cup gg.columns \cup tt.columns
    IN  [columns |-> cols,
         rows |-> Reindex(gg, cols) \o Reindex(fb, cols) \o Reindex(tt, cols)]

\* line 33: pd.concat([facebook, google, tiktok], ignore_index=True)
Concat(fb, gg, tt) ==
    LET cols == fb.columns \cup gg.columns \cup tt.columns
    IN  [columns |-> cols,
         rows |-> Reindex(fb, cols) \o Reindex(gg, cols) \o Reindex(tt, cols)]

\* lines 23-34: the unified marketing table
UnifiedMarketing(fb, gg, tt) ==
    DateColumnToDatetime(
        Concat(TagPlatform(StandardizeMarketing(fb), "Facebook"),
               TagPlatform(StandardizeMarketing(gg), "Google"),
               TagPlatform(StandardizeMarketing(tt), "TikTok")))

\* the elements of a finite set of integers in ascending order
RECURSIVE SortedSeq(_)
SortedSeq(S) ==
    IF S = {} THEN <<>>
    ELSE LET m == CHOOSE x \in S : \A y \in S : x <= y
         IN  <<m>> \o SortedSeq(S \ {m})

\* the cells of column c in the rows of date d
CellsOf(t, d, c) ==
    LET hit == SelectSeq(t.rows, LAMBDA r : r[cDate] = d)
    IN  [i \in 1..Len(hit) |-> hit[i][c]]

\* lines 37-39: groupby('date').agg({...: 'sum'}).reset_index(); one row per
\* distinct date, in ascending date order
DailyMarketing(m) ==
    LET dates == SortedSeq({m.rows[i][cDate] : i \in 1..Len(m.rows)})
        cols == {cDate} \cup MeasureColumns
    IN  [columns |-> cols,
         rows |-> [k \in 1..Len(dates) |->
                     [c \in cols |-> IF c = cDate THEN dates[k]
                                     ELSE NanSum(CellsOf(m, dates[k], c))]]]

\* the output rows of a left merge for one left row: one per matching right
\* row, or one with NaN in the right columns when nothing matches
RECURSIVE MergeRows(_, _, _)
MergeRows(lrows, right, cols) ==
    IF lrows = <<>> THEN <<>>
    ELSE LET l == lrows[1]
             hit == SelectSeq(right.rows, LAMBDA r : r[cDate] = l[cDate])
             out == IF hit = <<>>
                    THEN <<[c \in cols |-> IF c \in DOMAIN l THEN l[c] ELSE NaN]>>
                    ELSE [j \in 1..Len(hit) |->
                            [c \in cols |-> IF c \in DOMAIN l THEN l[c] ELSE hit[j][c]]]
         IN  out \o MergeRows(Tail(lrows), right, cols)

\* mutant of MergeLeft: how='outer', a right row without a match is kept
MergeOuter(left, right) ==
    LET cols == left.columns \cup right.columns
        only == SelectSeq(right.rows, LAMBDA r : \A i \in 1..Len(left.rows) :
                                                   left.rows[i][cDate] # r[cDate])
    IN  [columns |-> cols,
         rows |-> MergeRows(left.rows, right, cols)
                    \o [j \in 1..Len(only) |->
                          [c \in cols |-> IF c \in DOMAIN only[j] THEN only[j][c] ELSE NaN]]]

\* line 41: pd.merge(business, daily_marketing, on='date', how='left')
MergeLeft(left, right) ==
    LET cols == left.columns \cup right.columns
    IN  [columns |-> cols, rows |-> MergeRows(left.rows, right, cols)]

\* line 41, 51: fillna(0) (the date column holds no NaN)
FillNa(t) ==
    [columns |-> t.columns,
     rows |-> [i \in 1..Len(t.rows) |->
                 [c \in t.columns |->
                    LET v == t.rows[i][c]
                    IN  IF c # cDate /\ IsNaN(v) THEN Num(0) ELSE v]]]

\* line 50: replace([np.inf, -np.inf], 0)
ReplaceInf(t) ==
    [columns |-> t.columns,
     rows |-> [i \in 1..Len(t.rows) |->
                 [c \in t.columns |->
                    LET v == t.rows[i][c]
                    IN  IF c # cDate /\ IsInf(v) THEN Num(0) ELSE v]]]

\* lines 45-49 on one row
DeriveRow(r) ==
    [c \in DOMAIN r \cup {cRoas, cMer, cCpc, cCtr, cCac} |->
        IF c = cRoas THEN FDiv(r[cAttributedRevenue], FAdd(r[cSpend], epsilon))
        ELSE IF c = cMer THEN FDiv(r[cTotalRevenue], FAdd(r[cSpend], epsilon))
        ELSE IF c = cCpc THEN FDiv(r[cSpend], FAdd(r[cClicks], epsilon))
        ELSE IF c = cCtr THEN FScale(FDiv(r[cClicks], FAdd(r[cImpressions], epsilon)), 100)
        ELSE IF c = cCac THEN FDiv(r[cSpend], FAdd(r[cNewCustomers], epsilon))
        ELSE r[c]]

\* lines 44-51: the five ratio assignments, then the infinity and NaN coercion
DeriveMetrics(t) ==
    FillNa(ReplaceInf(
        [columns |-> t.columns \cup {cRoas, cMer, cCpc, cCtr, cCac},
         rows |-> [i \in 1..Len(t.rows) |-> DeriveRow(t.rows[i])]]))

\* lines 35-41: the joined table before the derived columns
JoinedTable(biz, m) ==
    FillNa(MergeLeft(DateColumnToDatetime(StandardizeBusiness(biz)), DailyMarketing(m)))

\* lines 37-38 raise KeyError when the unified table lacks an aggregated
\* column; lines 46, 49 when the business table lacks theirs
LoadRaises(fb, gg, tt, biz) ==
    \/ ~(MeasureColumns \subseteq UnifiedMarketing(fb, gg, tt).columns)
    \/ ~({cTotalRevenue, cNewCustomers} \subseteq StandardizeBusiness(biz).columns)

\* lines 15-53: load_data(), for files on which it does not raise
LoadData(fb, gg, tt, biz) ==
    LET m == UnifiedMarketing(fb, gg, tt)
    IN  [df |-> DeriveMetrics(JoinedTable(biz, m)), marketing_data |-> m]

\* ------------------------------------------------------------------------
\* The sidebar filter step (lines 62-84)
\* ------------------------------------------------------------------------
\* mutant of FilterMarketing: the end of the range is excluded
FilterMarketingBeforeEnd(m, F) ==
    [columns |-> m.columns,
     rows |-> SelectSeq(m.rows, LAMBDA r :
                 /\ r[cDate] >= ToDatetime(F.start)
                 /\ r[cDate] < ToDatetime(F.end)
                 /\ r[cPlatform] \in F.platforms
                 /\ r[cState] \in F.states
                 /\ r[cTactic] \in F.tactics)]

\* mutant of FilterMarketing: an empty selection restricts nothing
FilterMarketingEmptyIsAll(m, F) ==
    [columns |-> m.columns,
     rows |-> SelectSeq(m.rows, LAMBDA r :
                 /\ r[cDate] >= ToDatetime(F.start)
                 /\ r[cDate] <= ToDatetime(F.end)
                 /\ (F.platforms = {} \/ r[cPlatform] \in F.platforms)
                 /\ (F.states = {} \/ r[cState] \in F.states)
                 /\ (F.tactics = {} \/ r[cTactic] \in F.tactics))]

\* lines 76-83: marketing_data_raw[mask_marketing].copy()
FilterMarketing(m, F) ==
    [columns |-> m.columns,
     rows |-> SelectSeq(m.rows, LAMBDA r :
                 /\ r[cDate] >= ToDatetime(F.start)
                 /\ r[cDate] <= ToDatetime(F.end)
                 /\ r[cPlatform] \in F.platforms
                 /\ r[cState] \in F.states
                 /\ r[cTactic] \in F.tactics)]

\* lines 76, 84: df[(df['date'] >= start_date) & (df['date'] <= end_date)].copy()
FilterJoined(d, F) ==
    [columns |-> d.columns,
     rows |-> SelectSeq(d.rows, LAMBDA r :
                 /\ r[cDate] >= ToDatetime(F.start)
                 /\ r[cDate] <= ToDatetime(F.end))]

\* the values of column c that occur in t (lines 67-69: unique())
Unique(t, c) == {t.rows[i][c] : i \in 1..Len(t.rows)}

\* the dates the filter step is run with (line 76): the dates of the files
\* and the day before the first of them, start and end in either order
WidgetDates == {DateNames[i] : i \in 1..(MaxDate + 1)}

\* lines 65-76: the arguments of the filter step for the loaded tables: two
\* dates and a subset of the options of each multiselect
WidgetInputs(m) ==
    [start : WidgetDates, end : WidgetDates,
     platforms : SUBSET Unique(m, cPlatform),
     states : SUBSET Unique(m, cState),
     tactics : SUBSET Unique(m, cTactic)]

\* lines 64-73: what the widgets return on the first run: the whole date
\* range of the joined table and every option selected
WidgetDefaults(d, m) ==
    LET days == {d.rows[i][cDate] : i \in 1..Len(d.rows)}
    IN  [start |-> DateNames[CHOOSE x \in days : \A y \in days : x <= y],
         end |-> DateNames[CHOOSE x \in days : \A y \in days : x >= y],
         platforms |-> Unique(m, cPlatform),
         states |-> Unique(m, cState),
         tactics |-> Unique(m, cTactic)]

\* a rerun follows the change of one widget: the date range, the platforms,
\* the states or the tactics
OneWidgetChanged(F, G) ==
    \/ /\ G.platforms = F.platforms /\ G.states = F.states /\ G.tactics = F.tactics
    \/ /\ G.start = F.start /\ G.end = F.end /\ G.states = F.states /\ G.tactics = F.tactics
    \/ /\ G.start = F.start /\ G.end = F.end /\ G.platforms = F.platforms /\ G.tactics = F.tactics
    \/ /\ G.start = F.start /\ G.end = F.end /\ G.platforms = F.platforms /\ G.states = F.states

\* ------------------------------------------------------------------------
\* The CSV files
\* ------------------------------------------------------------------------
\* the dates that occur in the files
DataDates == {DateNames[i] : i \in 2..(MaxDate + 1)}

\* the cells of a channel row apart from its date
RowTemplates ==
    { [state |-> "CA", tactic |-> "ASC", campaign |-> "Summer",
       spend |-> Num(50), impressions |-> Num(1000), clicks |-> Num(10),
       attributed_revenue |-> Num(100)],
      [state |-> "NY", tactic |-> "Retargeting", campaign |-> "Promo",
       spend |-> Num(0), impressions |-> Num(0), clicks |-> Num(0),
       attributed_revenue |-> Num(5)] }

RowKinds == [date : DataDates, t : RowTemplates]

\* a channel row whose spend cell reads "inf"
InfiniteSpendRow ==
    [date |-> DateNames[2],
     t |-> [state |-> "CA", tactic |-> "ASC", campaign |-> "Summer",
            spend |-> Inf, impressions |-> Num(1000), clicks |-> Num(10),
            attributed_revenue |-> Num(100)]]

\* a header line: pairs <<header text, field of the row it carries>>
SchemaPlain ==
    { <<cDate, "date">>, <<cTactic, "tactic">>, <<cState, "state">>,
      <<cCampaign, "campaign">>, <<cImpression, "impressions">>,
      <<cClicks, "clicks">>, <<cSpend, "spend">>,
      <<hAttributedRevenueSp, "attributed_revenue">> }

SchemaCanonical ==
    { <<cDate, "date">>, <<cTactic, "tactic">>, <<cState, "state">>,
      <<cCampaign, "campaign">>, <<hImpressionsCap, "impressions">>,
      <<cClicks, "clicks">>, <<hSpendCap, "spend">>,
      <<cAttributedRevenue, "attributed_revenue">> }

SchemaVariant ==
    { <<cDate, "date">>, <<cTactic, "tactic">>, <<cState, "state">>,
      <<cCampaign, "campaign">>, <<hImpressionCap, "impressions">>,
      <<cClicks, "clicks">>, <<cSpend, "spend">>,
      <<hAttributeRevenueSp, "attributed_revenue">> }

\* a header line without the column of one measure
Without(schema, field) == {p \in schema : p[2] # field}

Schemas ==
    { SchemaPlain, SchemaCanonical, SchemaVariant }
    \cup { Without(SchemaCanonical, f) :
             f \in {"spend", "impressions", "clicks", "attributed_revenue"} }

\* pd.read_csv of a channel file with the given header line and rows
ChannelFile(schema, kinds) ==
    [columns |-> {p[1] : p \in schema},
     rows |-> [i \in 1..Len(kinds) |->
                 [h \in {p[1] : p \in schema} |->
                    LET f == (CHOOSE p \in schema : p[1] = h)[2]
                    IN  IF f = "date" THEN kinds[i].date ELSE kinds[i].t[f]]]]

BusinessHeader == {cDate, hNumOrders, hNewCustomersSp, hTotalRevenueSp, hGrossProfitSp}

\* pd.read_csv of the business file with one row per given date
BusinessFile(dates) ==
    [columns |-> BusinessHeader,
     rows |-> [i \in 1..Len(dates) |->
                 [h \in BusinessHeader |->
                    IF h = cDate THEN dates[i]
                    ELSE IF h = hNumOrders THEN Num(5)
                    ELSE IF h = hNewCustomersSp THEN Num(10)
                    ELSE IF h = hTotalRevenueSp THEN Num(1000)
                    ELSE Num(400)]]]

SeqsUpTo(S, n) == UNION {[1..k -> S] : k \in 0..n}

\* the date columns of the business files: some of the dates, every date at
\* most once, in calendar order
BusinessDates ==
    {s \in SeqsUpTo(DataDates, MaxDate) :
        Len(s) >= 1 /\ \A i, j \in 1..Len(s) : i < j => ToDatetime(s[i]) < ToDatetime(s[j])}

\* row j of the files of the filter runs: the dates in turn, the templates
\* in turn
DealtRow(j) ==
    [date |-> DateNames[2 + (j % MaxDate)],
     t |-> CHOOSE t \in RowTemplates : t.state = (IF j % 2 = 1 THEN "CA" ELSE "NY")]

\* the rows dealt to channel k (0, 1, 2): rows k+1, k+4, ... of MaxRows rows
DealtRows(k) ==
    LET mine == SelectSeq([j \in 1..MaxRows |-> j], LAMBDA j : (j - 1) % 3 = k)
    IN  [i \in 1..Len(mine) |-> DealtRow(mine[i])]

\* ------------------------------------------------------------------------
\* State
\* ------------------------------------------------------------------------
VARIABLES
    facebook, google, tiktok, business,   \* the four CSV files (lines 17-20)
    pc,                                   \* "start", "ran", "error"
    df, marketing_data_raw,               \* line 56: the cached result of load_data
    filters,                              \* lines 65-73: what the widgets returned
    filtered_marketing, filtered_df       \* lines 83, 84

vars == <<facebook, google, tiktok, business, pc, df, marketing_data_raw,
          filters, filtered_marketing, filtered_df>>

files == <<facebook, google, tiktok, business>>

NoFilters == [start |-> "", end |-> "", platforms |-> {}, states |-> {}, tactics |-> {}]

\* before the script has run
NotRun ==
    /\ pc = "start"
    /\ df = EmptyFrame
    /\ marketing_data_raw = EmptyFrame
    /\ filters = NoFilters
    /\ filtered_marketing = EmptyFrame
    /\ filtered_df = EmptyFrame

\* channel files that share one header line, at most MaxRows rows in all
ChannelRows ==
    \E a \in SeqsUpTo(RowKinds, MaxRows) :
    \E b \in SeqsUpTo(RowKinds, MaxRows - Len(a)) :
    \E c \in SeqsUpTo(RowKinds, MaxRows - Len(a) - Len(b)) :
        /\ facebook = ChannelFile(SchemaPlain, a)
        /\ google = ChannelFile(SchemaPlain, b)
        /\ tiktok = ChannelFile(SchemaPlain, c)

\* files that differ in their rows
InitData ==
    /\ ChannelRows
    /\ \E d \in BusinessDates : business = BusinessFile(d)
    /\ NotRun

\* files that differ in their header lines
InitSchema ==
    /\ \E sf \in Schemas, sg \in Schemas, st \in Schemas :
        /\ facebook = ChannelFile(sf, <<[date |-> DateNames[2], t |-> CHOOSE t \in RowTemplates : t.state = "CA"]>>)
        /\ google = ChannelFile(sg, <<[date |-> DateNames[2], t |-> CHOOSE t \in RowTemplates : t.state = "NY"]>>)
        /\ tiktok = ChannelFile(st, <<[date |-> DateNames[3], t |-> CHOOSE t \in RowTemplates : t.state = "CA"]>>)
    /\ business = BusinessFile(<<DateNames[2], DateNames[3]>>)
    /\ NotRun

\* files with a spend cell that is not finite
InitInfinite ==
    /\ \E a \in {<<InfiniteSpendRow>>,
                 <<InfiniteSpendRow, [date |-> DateNames[2],
                                      t |-> CHOOSE t \in RowTemplates : t.state = "CA"]>>} :
          facebook = ChannelFile(SchemaPlain, a)
    /\ google = ChannelFile(SchemaPlain, <<>>)
    /\ tiktok = ChannelFile(SchemaPlain, <<>>)
    /\ \E d \in BusinessDates : business = BusinessFile(d)
    /\ NotRun

\* MaxRows rows dealt over the three channel files; the business file covers
\* every date
InitFilter ==
    /\ facebook = ChannelFile(SchemaPlain, DealtRows(0))
    /\ google = ChannelFile(SchemaPlain, DealtRows(1))
    /\ tiktok = ChannelFile(SchemaPlain, DealtRows(2))
    /\ business = BusinessFile([i \in 1..MaxDate |-> DateNames[i + 1]])
    /\ NotRun

\* ------------------------------------------------------------------------
\* Actions
\* ------------------------------------------------------------------------
\* the first run of the script: load_data() runs (line 56, a cache miss) and
\* the widgets return their defaults (lines 62-84); a KeyError ends the run
Load ==
    /\ pc = "start"
    /\ IF LoadRaises(facebook, google, tiktok, business)
       THEN /\ pc' = "error"
            /\ UNCHANGED <<df, marketing_data_raw, filters, filtered_marketing, filtered_df>>
       ELSE LET loaded == LoadData(facebook, google, tiktok, business)
            IN  /\ pc' = "ran"
                /\ df' = loaded.df
                /\ marketing_data_raw' = loaded.marketing_data
                /\ filters' = WidgetDefaults(df', marketing_data_raw')
                /\ filtered_marketing' = FilterMarketing(marketing_data_raw', filters')
                /\ filtered_df' = FilterJoined(df', filters')
    /\ UNCHANGED files

\* mutant of ApplyFilters: the script filters the cached tables themselves
ApplyFiltersInPlace(F) ==
    /\ pc = "ran"
    /\ filters' = F
    /\ marketing_data_raw' = FilterMarketing(marketing_data_raw, F)
    /\ df' = FilterJoined(df, F)
    /\ filtered_marketing' = marketing_data_raw'
    /\ filtered_df' = df'
    /\ UNCHANGED <<files, pc>>

\* lines 56-84 with the widgets returning F: load_data() is served from the
\* cache and the script filters copies of the cached tables
ApplyFilters(F) ==
    /\ pc = "ran"
    /\ filters' = F
    /\ filtered_marketing' = FilterMarketing(marketing_data_raw, F)
    /\ filtered_df' = FilterJoined(df, F)
    /\ UNCHANGED <<files, pc, df, marketing_data_raw>>

\* a rerun of the script after a widget changed
Rerun ==
    \E F \in WidgetInputs(marketing_data_raw) :
        OneWidgetChanged(filters, F) /\ ApplyFilters(F)

Next == Load \/ Rerun

Spec == InitFilter /\ [][Next]_vars

NextLoad == Load

SpecLoad == (InitData \/ InitSchema \/ InitInfinite) /\ [][NextLoad]_vars

\* ------------------------------------------------------------------------
\* Properties
\* ------------------------------------------------------------------------
\* the day ordinals of the date column of a table
DatesOf(t) == {t.rows[i][cDate] : i \in 1..Len(t.rows)}

\* the day ordinals of the date column of a file
FileDates(f) == {ToDatetime(f.rows[i][cDate]) : i \in 1..Len(f.rows)}

\* C1: the joined table has exactly one row per row of the business file, in
\* the order of the business file, and no date that occurs only in the
\* marketing data occurs in it.
C1_JoinKeepsBusinessRows ==
    pc = "ran" =>
        /\ Len(df.rows) = Len(business.rows)
        /\ \A i \in 1..Len(business.rows) :
               df.rows[i][cDate] = ToDatetime(business.rows[i][cDate])
        /\ \A d \in DatesOf(marketing_data_raw) \ FileDates(business) :
               d \notin DatesOf(df)

\* C1: a run in which the marketing data has a date the business file lacks
\* and the business file has a date the marketing data lacks
C1_Witness ==
    /\ pc = "ran"
    /\ DatesOf(marketing_data_raw) \ FileDates(business) # {}
    /\ FileDates(business) \ DatesOf(marketing_data_raw) # {}

\* C3: a business row whose date has no marketing record is joined to
\* spend = 0, attributed_revenue = 0, roas = 0, mer = 0 and cac = 0.
C3_NoMarketingAllZero ==
    pc = "ran" =>
        \A i \in 1..Len(df.rows) :
            df.rows[i][cDate] \notin DatesOf(marketing_data_raw) =>
                /\ IsZero(df.rows[i][cSpend])
                /\ IsZero(df.rows[i][cAttributedRevenue])
                /\ IsZero(df.rows[i][cRoas])
                /\ IsZero(df.rows[i][cMer])
                /\ IsZero(df.rows[i][cCac])

\* C4: in every row of the joined table, a summed spend of 0 gives a roas
\* of 0.
C4_ZeroSpendZeroRoas ==
    pc = "ran" =>
        \A i \in 1..Len(df.rows) :
            IsZero(df.rows[i][cSpend]) => IsZero(df.rows[i][cRoas])

\* the channel files whose standardized table lacks column c
Lacking(c) ==
    {f \in {facebook, google, tiktok} : c \notin StandardizeMarketing(f).columns}

\* the cells of column c that the standardized channel files hold for day d
RECURSIVE CellsOn(_, _, _)
CellsOn(fs, d, c) ==
    IF fs = <<>> THEN <<>>
    ELSE LET t == StandardizeMarketing(fs[1])
             hit == SelectSeq(t.rows, LAMBDA r : ToDatetime(r[cDate]) = d)
         IN  (IF c \in t.columns THEN [i \in 1..Len(hit) |-> hit[i][c]] ELSE <<>>)
             \o CellsOn(Tail(fs), d, c)

\* C5: whenever some of the channel files (or all of them) lack an expected
\* numeric column, load_data completes and the joined table carries the
\* column, the files that lack it contributing 0 to its sums.
C5_MissingColumnTolerated ==
    pc # "start" =>
        \A c \in MeasureColumns :
            Lacking(c) # {} =>
                /\ pc = "ran"
                /\ c \in df.columns
                /\ \A i \in 1..Len(df.rows) :
                       df.rows[i][c] =
                           NanSum(CellsOn(<<facebook, google, tiktok>>, df.rows[i][cDate], c))

\* the recognized raw variants and the canonical columns they fold to
Variants == {<<cImpression, cImpressions>>, <<cAttributeRevenue, cAttributedRevenue>>}

\* the header of file f that reads as name n once lower-cased and with its
\* spaces turned into underscores
HeadersReading(f, n) == {h \in f.columns : MarketingColumnName(h) = n}

\* C6: a channel file that has a recognized variant of a column and not the
\* canonical column is standardized to a table that has the canonical column,
\* holding the variant's cells, and no column of the variant's name.
C6_VariantsFolded ==
    \A f \in {facebook, google, tiktok} : \A v \in Variants :
        (HeadersReading(f, v[1]) # {} /\ HeadersReading(f, v[2]) = {}) =>
            LET t == StandardizeMarketing(f)
                h == CHOOSE h \in HeadersReading(f, v[1]) : TRUE
            IN  /\ v[2] \in t.columns
                /\ v[1] \notin t.columns
                /\ \A i \in 1..Len(f.rows) : t.rows[i][v[2]] = f.rows[i][h]

\* the standardized rows of file f are rows (off + 1)..(off + Len) of the
\* unified table, tagged with the platform
HoldsFile(u, f, off, tag) ==
    LET t == StandardizeMarketing(f)
    IN  \A i \in 1..Len(f.rows) :
            /\ u.rows[off + i][cPlatform] = tag
            /\ u.rows[off + i][cDate] = ToDatetime(t.rows[i][cDate])
            /\ \A c \in t.columns \ {cDate} : u.rows[off + i][c] = t.rows[i][c]

\* C8: the unified marketing table is the Facebook rows, then the Google
\* rows, then the TikTok rows, each file's rows in their order, none removed
\* or merged, each tagged with its own platform.
C8_UnifiedIsConcatenation ==
    pc = "ran" =>
        /\ Len(marketing_data_raw.rows)
             = Len(facebook.rows) + Len(google.rows) + Len(tiktok.rows)
        /\ HoldsFile(marketing_data_raw, facebook, 0, "Facebook")
        /\ HoldsFile(marketing_data_raw, google, Len(facebook.rows), "Google")
        /\ HoldsFile(marketing_data_raw, tiktok,
                     Len(facebook.rows) + Len(google.rows), "TikTok")

\* C8: a run on files of which two channels have rows
C8_Witness ==
    /\ pc = "ran"
    /\ Cardinality({f \in {"f", "g", "t"} :
                      Len((IF f = "f" THEN facebook ELSE IF f = "g" THEN google
                           ELSE tiktok).rows) > 0}) >= 2

\* C9: applying the metric derivation to its own output changes no column.
C9_DerivationIdempotent ==
    pc = "ran" => DeriveMetrics(df) = df

\* the rows of t at the indexes I, in the order of t
RowsAt(t, I) ==
    LET at == SortedSeq(I)
    IN  [k \in 1..Len(at) |-> t.rows[at[k]]]

\* the day of row r lies within start..end, both included
InRange(r, F) ==
    /\ ToDatetime(F.start) <= r[cDate]
    /\ r[cDate] <= ToDatetime(F.end)

\* C2: the filter step returns exactly the unified rows whose date is within
\* start..end and whose platform, state and tactic are selected, and exactly
\* the joined rows whose date is within start..end, whatever the selections.
C2_FilterReturnsExactly ==
    pc = "ran" =>
        /\ filtered_marketing.columns = marketing_data_raw.columns
        /\ filtered_marketing.rows =
               RowsAt(marketing_data_raw,
                      {i \in 1..Len(marketing_data_raw.rows) :
                          LET r == marketing_data_raw.rows[i]
                          IN  /\ InRange(r, filters)
                              /\ r[cPlatform] \in filters.platforms
                              /\ r[cState] \in filters.states
                              /\ r[cTactic] \in filters.tactics})
        /\ filtered_df.columns = df.columns
        /\ filtered_df.rows =
               RowsAt(df, {i \in 1..Len(df.rows) : InRange(df.rows[i], filters)})
        /\ \A P \in SUBSET Unique(marketing_data_raw, cPlatform),
              S \in SUBSET Unique(marketing_data_raw, cState),
              T \in SUBSET Unique(marketing_data_raw, cTactic) :
               FilterJoined(df, [filters EXCEPT !.platforms = P, !.states = S,
                                                !.tactics = T]) = filtered_df

\* C2: a run that drops a unified row inside the date range for its platform,
\* state or tactic, and keeps some but not all joined rows
C2_Witness ==
    /\ pc = "ran"
    /\ \E i \in 1..Len(marketing_data_raw.rows) :
           /\ InRange(marketing_data_raw.rows[i], filters)
           /\ \A k \in 1..Len(filtered_marketing.rows) :
                  filtered_marketing.rows[k] # marketing_data_raw.rows[i]
    /\ Len(filtered_df.rows) > 0
    /\ Len(filtered_df.rows) < Len(df.rows)

\* C7: after any sequence of filter invocations the cached tables are the
\* tables a fresh load gives, and the filtered tables are what the last
\* arguments give on freshly loaded tables.
C7_FilteringKeepsBaseTables ==
    pc = "ran" =>
        LET fresh == LoadData(facebook, google, tiktok, business)
        IN  /\ df = fresh.df
            /\ marketing_data_raw = fresh.marketing_data
            /\ filtered_marketing = FilterMarketing(fresh.marketing_data, filters)
            /\ filtered_df = FilterJoined(fresh.df, filters)

\* C7: a run after a widget changed that keeps fewer unified rows than the
\* cached table has
C7_Witness ==
    /\ pc = "ran"
    /\ filters # WidgetDefaults(df, marketing_data_raw)
    /\ Len(filtered_marketing.rows) < Len(marketing_data_raw.rows)
    /\ Len(filtered_df.rows) < Len(df.rows)

\* the later of two dates and the earlier of two dates
LaterDate(a, b) == IF ToDatetime(a) >= ToDatetime(b) THEN a ELSE b

EarlierDate(a, b) == IF ToDatetime(a) <= ToDatetime(b) THEN a ELSE b

\* the intersection of two filters
Intersect(F, G) ==
    [start |-> LaterDate(F.start, G.start),
     end |-> EarlierDate(F.end, G.end),
     platforms |-> F.platforms \cap G.platforms,
     states |-> F.states \cap G.states,
     tactics |-> F.tactics \cap G.tactics]

\* C10: filtering the result of a filter F1 by a filter F2 gives the rows
\* that filtering once by the intersection of F1 and F2 gives, for the unified
\* table with every F2 and for the joined table with every date range (its
\* filter reads no selection, line 84); a range whose start is after its end,
\* or that ends before the earliest date, gives empty tables.
C10_FilterComposes ==
    pc = "ran" =>
        /\ \A s \in WidgetDates, e \in WidgetDates :
               LET D == [filters EXCEPT !.start = s, !.end = e]
               IN  /\ FilterJoined(filtered_df, D) = FilterJoined(df, Intersect(filters, D))
                   /\ \A P \in SUBSET Unique(marketing_data_raw, cPlatform),
                         S \in SUBSET Unique(marketing_data_raw, cState),
                         T \in SUBSET Unique(marketing_data_raw, cTactic) :
                          LET G == [start |-> s, end |-> e, platforms |-> P,
                                    states |-> S, tactics |-> T]
                          IN  FilterMarketing(filtered_marketing, G)
                                = FilterMarketing(marketing_data_raw, Intersect(filters, G))
        /\ ( \/ ToDatetime(filters.start) > ToDatetime(filters.end)
             \/ \A d \in DatesOf(df) \cup DatesOf(marketing_data_raw) :
                    ToDatetime(filters.end) < d )
               => filtered_marketing.rows = <<>> /\ filtered_df.rows = <<>>

\* C10: a run with a filter that keeps unified rows, of which a second
\* filter keeps some and drops some
C10_Witness ==
    /\ pc = "ran"
    /\ \E G \in WidgetInputs(marketing_data_raw) :
           /\ G # filters
           /\ Len(FilterMarketing(filtered_marketing, G).rows) > 0
           /\ Len(FilterMarketing(filtered_marketing, G).rows)
                < Len(filtered_marketing.rows)

====
